---- MODULE Spec2Model ----
(***************************************************************************)
(* The offline cache gateway of src/sw.js: the service worker's install    *)
(* and activate handlers, its fetch listener with the network-first and    *)
(* cache-first strategies, and its message listener, over a model of the   *)
(* Cache Storage (an ordered list of named stores) and of the network.     *)
(*                                                                         *)
(* Every handler is cut at its await points: one action per resumption.    *)
(* The outcome of each awaited host operation (fetch, caches.open,         *)
(* caches.match, caches.keys, caches.delete, cache.put) is chosen by the   *)
(* environment, failure included.                                          *)
(***************************************************************************)
EXTENDS Integers, Sequences, FiniteSets, Bags, TLC

(***************************************************************************)
(* Program constants (src/sw.js:4-16) and the worker's own origin.         *)
(***************************************************************************)
CACHE_NAME == "eternadata-v1.0.0"

\* the fallback page set to the index page
OfflinePageIsIndex == "/index.html"

OFFLINE_PAGE == "/offline.html"

STATIC_CACHE ==
    << "/", "/index.html", "/assets/styles.css", "/assets/script.js",
       "/assets/logo.svg", "/assets/favicon.svg", "/offline.html" >>

\* self.location.origin of the worker script
SelfOrigin == "https://eternadata.github.io"

\* names of the stores left behind by earlier versions of the worker
OldCacheNames == << "eternadata-v0.9.0", "eternadata-v0.8.0" >>

(***************************************************************************)
(* Bounds of the model.                                                    *)
(***************************************************************************)
\* content versions the origin server goes through
MaxVer == 2

\* fetch events handled concurrently
MaxTasks == 2

\* fetch and message events delivered in one run
MaxEvents == 2

\* stores of earlier versions present when this version is registered
MaxOld == 2

\* fetch events delivered in one run of repeated requests for one URL
MaxRepeat == 3

\* submit events of the contact form delivered in one run
MaxSubmits == 3

(***************************************************************************)
(* Values.                                                                 *)
(***************************************************************************)
\* every value a promise of the handlers settles to is one of these records
Value(k, u, s, st, b) ==
    [kind |-> k, url |-> u, status |-> s, statusText |-> st, body |-> b]

\* new Response(body, {status, statusText})
NewResponse(b, s, st) == Value("response", "", s, st, b)

Undefined == Value("undefined", "", 0, "", "")

\* a rejected promise
Rejected == Value("rejected", "", 0, "", "")

\* no value yet
Pending == Value("pending", "", 0, "", "")

\* the test of a response being there in place of the test of its status
OkIgnoringStatus(r) == r.kind = "response"

\* Response.ok: the status is in the range 200-299
Ok(r) == r.kind = "response" /\ r.status >= 200 /\ r.status <= 299

IsResponse(r) == r.kind = "response"

\* URL resolution of a path of this site against the worker's location
Resolve(path) == SelfOrigin \o path

\* String.prototype.startsWith
StartsWith(s, p) == Len(s) >= Len(p) /\ SubSeq(s, 1, Len(p)) = p

Range(f) == { f[i] : i \in DOMAIN f }

(***************************************************************************)
(* Requests.  A request is its method, its URL and its destination.        *)
(***************************************************************************)
Request(m, u, d) == [method |-> m, url |-> u, destination |-> d]

NoRequest == Request("", "", "")

\* the origin of an absolute https URL: everything before the first "/"
\* that follows "https://"
OriginOf(u) ==
    LET SchemeLen == Len("https://")
        Slashes == { i \in (SchemeLen + 1)..Len(u) : SubSeq(u, i, i) = "/" }
    IN  IF Slashes = {} THEN u
        ELSE SubSeq(u, 1, (CHOOSE i \in Slashes : \A j \in Slashes : i <= j) - 1)

SameOrigin(u) == OriginOf(u) = SelfOrigin

\* the fetch events the pages of the site raise
Requests ==
    { Request("GET", Resolve("/"), "document"),
      Request("GET", Resolve("/"), ""),
      Request("GET", Resolve("/about.html"), "document"),
      Request("GET", Resolve("/assets/missing.png"), "image"),
      Request("POST", Resolve("/api/contact"), ""),
      Request("GET", "https://fonts.googleapis.com/css", "style"),
      Request("GET", SelfOrigin \o ".evil.example/logo.svg", "image") }

(***************************************************************************)
(* The network.  The origin server serves every URL with the content of    *)
(* its current version; a fetch resolves with an ok response, resolves     *)
(* with a non-ok response, or rejects.                                     *)
(***************************************************************************)
NetResponse(u, ver) == Value("response", u, 200, "OK", "content-v" \o ToString(ver))

NotOkResponse(u) == Value("response", u, 500, "Internal Server Error", "server error")

FetchOutcomes(u, ver) == { NetResponse(u, ver), NotOkResponse(u), Rejected }

(***************************************************************************)
(* Cache Storage: the stores in creation order, each a name and a map from *)
(* URL to the response snapshot stored under it.                           *)
(***************************************************************************)
NoEntries == [u \in {} |-> Undefined]

Store(n, e) == [name |-> n, entries |-> e]

\* the snapshots an earlier version left in its store
OldEntries ==
    [u \in { Resolve("/"), Resolve(OFFLINE_PAGE) } |->
        Value("response", u, 200, "OK", "content-v0")]

\* caches.keys()
CachesKeys(cs) == [i \in DOMAIN cs |-> cs[i].name]

CachesHas(cs, n) == \E i \in DOMAIN cs : cs[i].name = n

\* caches.open(name): the store of that name, created last when absent
CachesOpen(cs, n) == IF CachesHas(cs, n) THEN cs ELSE Append(cs, Store(n, NoEntries))

\* caches.delete(name)
CachesDelete(cs, n) == SelectSeq(cs, LAMBDA c : c.name # n)

\* the entries of the store named n (none when there is no such store)
EntriesOf(cs, n) ==
    IF CachesHas(cs, n)
    THEN cs[CHOOSE i \in DOMAIN cs : cs[i].name = n].entries
    ELSE NoEntries

\* a put that leaves an entry that is already there as it is
PutEntryKeepFirst(e, u, r) ==
    [x \in (DOMAIN e) \cup {u} |-> IF x \in DOMAIN e THEN e[x] ELSE r]

\* one store's entries after put(u, r): the entry of u is replaced
PutEntry(e, u, r) == [x \in (DOMAIN e) \cup {u} |-> IF x = u THEN r ELSE e[x]]

\* cache.put(request, response) on the store named n
CachePut(cs, n, u, r) ==
    [i \in DOMAIN cs |->
        IF cs[i].name = n THEN Store(n, PutEntry(cs[i].entries, u, r)) ELSE cs[i]]

\* a match that lets the store created last win
CachesMatchLast(cs, u) ==
    LET Hits == { i \in DOMAIN cs : u \in DOMAIN cs[i].entries }
    IN  IF Hits = {} THEN Undefined
        ELSE cs[CHOOSE i \in Hits : \A j \in Hits : j <= i].entries[u]

\* caches.match(request): the entry of the first store, in creation order,
\* that holds the URL; undefined when none does
CachesMatch(cs, u) ==
    LET Hits == { i \in DOMAIN cs : u \in DOMAIN cs[i].entries }
    IN  IF Hits = {} THEN Undefined
        ELSE cs[CHOOSE i \in Hits : \A j \in Hits : i <= j].entries[u]

(***************************************************************************)
(* The contact form of the page (src/script.js:233-320).  The form is the  *)
(* values of its required fields: a text field and an email field.         *)
(***************************************************************************)
Form(n, e) == [name |-> n, email |-> e]

\* the form as the page loads it and as form.reset() leaves it
EmptyForm == Form("", "")

\* what a visitor may have typed into the fields
NameValues == { "", " ", "Ann" }

EmailValues == { "", "ann@example.org", "ann@example", "ann @example.org" }

\* String.prototype.trim, for values padded with spaces
RECURSIVE Trim(_)
Trim(v) ==
    IF Len(v) = 0 THEN v
    ELSE IF SubSeq(v, 1, 1) = " " THEN Trim(SubSeq(v, 2, Len(v)))
    ELSE IF SubSeq(v, Len(v), Len(v)) = " " THEN Trim(SubSeq(v, 1, Len(v) - 1))
    ELSE v

\* emailRegex.test(value) for /^[^\s@]+@[^\s@]+\.[^\s@]+$/: one "@" with
\* text before it, and after it a "." with text on both sides; no space
\* and no other "@" anywhere
EmailRegexTest(v) ==
    \E a \in 2..Len(v) :
        /\ SubSeq(v, a, a) = "@"
        /\ \E d \in (a + 2)..(Len(v) - 1) : SubSeq(v, d, d) = "."
        /\ \A i \in (1..Len(v)) \ {a} : SubSeq(v, i, i) \notin { "@", " " }

\* validateForm(form): every required field has text after trimming, and
\* the text of the email field matches the pattern
ValidateForm(f) ==
    /\ Trim(f.name) # ""
    /\ Trim(f.email) # ""
    /\ EmailRegexTest(Trim(f.email))

(***************************************************************************)
(* State.                                                                  *)
(***************************************************************************)
VARIABLES
    caches,           \* Cache Storage: the stores, in creation order
    netVer,           \* the content version the origin server serves
    state,            \* the worker's lifecycle state
    skipWaitingFlag,  \* set by self.skipWaiting()
    claimed,          \* self.clients.claim() has been called
    install,          \* the install handler: position, addAll's responses, log, promise
    activate,         \* the activate handler: position, deletions in flight and logged, promise
    tasks,            \* the fetch events being handled
    pendingPuts,      \* cache.put calls started and not settled (a bag: equal calls count)
    nEvents,          \* fetch and message events delivered so far
    lastMsg,          \* the last message event and what its handler did
    isLoading,        \* the page: EternaDataApp.isLoading
    form,             \* the page: the values of the contact form's required fields
    submissions,      \* the page: the submitForm calls in flight, each at its await
    notification,     \* the page: the notification shown last ("none" before the
                      \* first; "invalid", "error" and "went wrong" are of type
                      \* error, "success" of type success)
    lastSubmit,       \* the page: what the handler of the last submit event did
    nSubmits          \* the page: submit events delivered so far

\* the state of the page script (src/script.js)
pageVars == << isLoading, form, submissions, notification, lastSubmit, nSubmits >>

\* the state of the service worker (src/sw.js)
workerVars ==
    << caches, netVer, state, skipWaitingFlag, claimed, install, activate,
       tasks, pendingPuts, nEvents, lastMsg >>

vars == << workerVars, pageVars >>

TaskIds == 1..MaxTasks

ManifestIdx == DOMAIN STATIC_CACHE

NoResults == [i \in {} |-> "none"]

IdleTask == [pc |-> "idle", req |-> NoRequest, ops |-> << >>, net |-> Pending,
             result |-> Pending]

NoMsg == [type |-> "", hasData |-> FALSE, nports |-> 0]

\* what the message listener did with one event
Handled(m, replies, threw, logged, skipped) ==
    [msg |-> m, handled |-> TRUE, replies |-> replies, threw |-> threw,
     logged |-> logged, skipWaiting |-> skipped]

NotHandled ==
    [msg |-> NoMsg, handled |-> FALSE, replies |-> << >>, threw |-> FALSE,
     logged |-> FALSE, skipWaiting |-> FALSE]

\* the snapshots an earlier run of this version left in the store named
\* CACHE_NAME: the manifest, stored by its install, and a page stored while
\* it served requests, as the origin served them then
PriorEntries ==
    [u \in { Resolve(STATIC_CACHE[i]) : i \in DOMAIN STATIC_CACHE }
             \cup { Resolve("/about.html") } |->
        Value("response", u, 200, "OK", "content-v0")]

\* the stores present when the worker is registered, in creation order:
\* those of up to MaxOld earlier versions and then, when this version was
\* installed before (stores outlive a registration), the store named
\* CACHE_NAME with what that installation left in it
InitialCaches ==
    { SubSeq([i \in DOMAIN OldCacheNames |-> Store(OldCacheNames[i], OldEntries)], 1, k)
        \o prior :
        k \in 0..(IF MaxOld < Len(OldCacheNames) THEN MaxOld ELSE Len(OldCacheNames)),
        prior \in { << >>, << Store(CACHE_NAME, PriorEntries) >> } }

Init ==
    /\ caches \in InitialCaches
    /\ netVer = 1
    /\ state = "parsed"
    /\ skipWaitingFlag = FALSE
    /\ claimed = FALSE
    /\ install = [pc |-> "none", results |-> NoResults, logged |-> FALSE,
                  promise |-> "none"]
    /\ activate = [pc |-> "none", pending |-> {}, logged |-> {}, promise |-> "none"]
    /\ tasks = [t \in TaskIds |-> IdleTask]
    /\ pendingPuts = EmptyBag
    /\ nEvents = 0
    /\ lastMsg = NotHandled
    /\ isLoading = FALSE
    /\ form = EmptyForm
    /\ submissions = << >>
    /\ notification = "none"
    /\ lastSubmit = "none"
    /\ nSubmits = 0

(***************************************************************************)
(* The origin server publishes a new content version.                      *)
(***************************************************************************)
ContentUpdate ==
    /\ netVer < MaxVer
    /\ netVer' = netVer + 1
    /\ UNCHANGED << pageVars, caches, state, skipWaitingFlag, claimed, install, activate,
                    tasks, pendingPuts, nEvents, lastMsg >>

(***************************************************************************)
(* install (src/sw.js:19-34).                                              *)
(***************************************************************************)
\* the listener runs: waitUntil(caches.open(...)...) is registered and
\* self.skipWaiting() is called
InstallEvent ==
    /\ state = "parsed"
    /\ state' = "installing"
    /\ install' = [install EXCEPT !.pc = "open", !.promise = "pending"]
    /\ skipWaitingFlag' = TRUE
    /\ UNCHANGED << pageVars, caches, netVer, claimed, activate, tasks, pendingPuts,
                    nEvents, lastMsg >>

\* the chain without its .catch: a rejection reaches waitUntil
InstallSettledNoCatch(res, failed) ==
    [pc |-> "settled", results |-> res, logged |-> FALSE,
     promise |-> IF failed THEN "rejected" ELSE "fulfilled"]

\* the promise passed to waitUntil settles: .catch turns every rejection
\* into a logged error and a fulfilled promise
InstallSettled(res, failed) ==
    [pc |-> "settled", results |-> res, logged |-> failed, promise |-> "fulfilled"]

\* caches.open(CACHE_NAME) settles
InstallOpen ==
    /\ state = "installing"
    /\ install.pc = "open"
    /\ \E ok \in BOOLEAN :
        IF ok
        THEN /\ caches' = CachesOpen(caches, CACHE_NAME)
             /\ install' = [install EXCEPT !.pc = "addAll"]
             /\ state' = state
        ELSE /\ caches' = caches
             /\ install' = InstallSettled(NoResults, TRUE)
             /\ state' = "installed"
    /\ UNCHANGED << pageVars, netVer, skipWaitingFlag, claimed, activate, tasks,
                    pendingPuts, nEvents, lastMsg >>

\* addAll with an off-by-one: the last URL of the list is left out
AddAllEntriesButLast(e, ver) ==
    [u \in (DOMAIN e) \cup { Resolve(STATIC_CACHE[i]) : i \in 1..(Len(STATIC_CACHE) - 1) } |->
        IF \E i \in 1..(Len(STATIC_CACHE) - 1) : Resolve(STATIC_CACHE[i]) = u
        THEN NetResponse(u, ver)
        ELSE e[u]]

\* the entries of a store after every manifest response has been stored
AddAllEntries(e, ver) ==
    [u \in (DOMAIN e) \cup { Resolve(STATIC_CACHE[i]) : i \in ManifestIdx } |->
        IF \E i \in ManifestIdx : Resolve(STATIC_CACHE[i]) = u
        THEN NetResponse(u, ver)
        ELSE e[u]]

\* cache.addAll(urls) resolves when every fetch resolved with an ok response
AddAllResolves(res) == \A i \in ManifestIdx : res[i] = "ok"

\* cache.addAll(urls): every URL is fetched; the responses are stored, all
\* together, only when every one of them is ok.  res gives the outcome of
\* each fetch ("failed": it rejected, or resolved with a response that is
\* not ok).
CacheAddAll(cs, n, res, ver) ==
    IF AddAllResolves(res)
    THEN [i \in DOMAIN cs |->
            IF cs[i].name = n THEN Store(n, AddAllEntries(cs[i].entries, ver)) ELSE cs[i]]
    ELSE cs

\* cache.addAll(STATIC_CACHE) settles
InstallAddAll ==
    /\ state = "installing"
    /\ install.pc = "addAll"
    /\ \E res \in [ManifestIdx -> {"ok", "failed"}] :
        /\ caches' = CacheAddAll(caches, CACHE_NAME, res, netVer)
        /\ install' = InstallSettled(res, ~AddAllResolves(res))
    /\ state' = "installed"
    /\ UNCHANGED << pageVars, netVer, skipWaitingFlag, claimed, activate, tasks,
                    pendingPuts, nEvents, lastMsg >>

(***************************************************************************)
(* activate (src/sw.js:37-54).                                             *)
(***************************************************************************)
\* the host activates the installed worker once it need not wait; the
\* listener runs and caches.keys() is called
ActivateEvent ==
    /\ state = "installed"
    /\ skipWaitingFlag
    /\ state' = "activating"
    /\ activate' = [activate EXCEPT !.pc = "keys", !.promise = "pending"]
    /\ install' = [install EXCEPT !.results = NoResults]
    /\ UNCHANGED << pageVars, caches, netVer, skipWaitingFlag, claimed, tasks,
                    pendingPuts, nEvents, lastMsg >>

\* the map callback with its comparison inverted (=== for !==)
ToDeleteInverted(names) ==
    { names[i] : i \in { j \in DOMAIN names : names[j] = CACHE_NAME } }

\* the names for which the map callback calls caches.delete
ToDelete(names) == { names[i] : i \in { j \in DOMAIN names : names[j] # CACHE_NAME } }

\* clients.claim() chained to caches.keys() instead of Promise.all: it is
\* called in the turn caches.keys() resolves, while deletions may be pending
ActivateKeysClaimEarly ==
    /\ state = "activating"
    /\ activate.pc = "keys"
    /\ activate' = [activate EXCEPT !.pc = "claim",
                                    !.pending = ToDelete(CachesKeys(caches)),
                                    !.logged = ToDelete(CachesKeys(caches))]
    /\ claimed' = TRUE
    /\ UNCHANGED << pageVars, caches, netVer, state, skipWaitingFlag, install, tasks,
                    pendingPuts, nEvents, lastMsg >>

\* caches.keys() settles; on success every deletion is logged and started.
\* With nothing to delete Promise.all resolves in the same turn and
\* self.clients.claim() is called before control returns to the event loop
ActivateKeys ==
    /\ state = "activating"
    /\ activate.pc = "keys"
    /\ \E ok \in BOOLEAN :
        IF ok
        THEN LET del == ToDelete(CachesKeys(caches))
             IN  /\ activate' = [activate EXCEPT
                                   !.pc = IF del = {} THEN "claim" ELSE "deleting",
                                   !.pending = del,
                                   !.logged = del]
                 /\ claimed' = (claimed \/ del = {})
                 /\ state' = state
        ELSE /\ activate' = [activate EXCEPT !.pc = "settled", !.promise = "rejected"]
             /\ claimed' = claimed
             /\ state' = "activated"
    /\ UNCHANGED << pageVars, caches, netVer, skipWaitingFlag, install, tasks,
                    pendingPuts, nEvents, lastMsg >>

\* one caches.delete(name) settles; the first that rejects rejects
\* Promise.all, and with it the promise passed to waitUntil.  When the last
\* pending one resolves and none has rejected, Promise.all resolves and
\* self.clients.claim() is called in the same turn
ActivateDelete(n) ==
    /\ n \in activate.pending
    /\ \E ok \in BOOLEAN :
        IF ok
        THEN /\ caches' = CachesDelete(caches, n)
             /\ IF activate.pc = "deleting" /\ activate.pending = {n}
                THEN /\ activate' = [activate EXCEPT !.pending = {}, !.pc = "claim"]
                     /\ claimed' = TRUE
                ELSE /\ activate' = [activate EXCEPT !.pending = @ \ {n}]
                     /\ claimed' = claimed
             /\ state' = state
        ELSE /\ caches' = caches
             /\ claimed' = claimed
             /\ IF activate.pc = "deleting"
                THEN /\ activate' = [activate EXCEPT !.pending = @ \ {n},
                                                     !.pc = "settled",
                                                     !.promise = "rejected"]
                     /\ state' = "activated"
                ELSE /\ activate' = [activate EXCEPT !.pending = @ \ {n}]
                     /\ state' = state
    /\ UNCHANGED << pageVars, netVer, skipWaitingFlag, install, tasks,
                    pendingPuts, nEvents, lastMsg >>

\* the promise of self.clients.claim(), called in an earlier turn, settles
\* and with it the promise passed to waitUntil; the worker is activated
\* either way
ActivateClaim ==
    /\ state = "activating"
    /\ activate.pc = "claim"
    /\ \E ok \in BOOLEAN :
        activate' = [activate EXCEPT !.pc = "settled",
                                     !.promise = IF ok THEN "fulfilled" ELSE "rejected"]
    /\ state' = "activated"
    /\ UNCHANGED << pageVars, caches, netVer, skipWaitingFlag, claimed, install, tasks,
                    pendingPuts, nEvents, lastMsg >>

(***************************************************************************)
(* fetch (src/sw.js:57-148).  A task is one fetch event: its request, the  *)
(* await it is suspended at (pc), the host operations it has started so    *)
(* far (ops), the response its network fetch resolved with (net) and, once *)
(* done, the value the promise handed to respondWith settled to (result).  *)
(* pc "passthrough" is an event whose listener returned without calling    *)
(* respondWith.                                                            *)
(***************************************************************************)
\* the listener's two guards: respondWith is called for these requests only
Intercepts(req) == req.method = "GET" /\ StartsWith(req.url, SelfOrigin)

\* handleRequest's dispatch on the destination
IsDocument(req) == req.destination = "document"

\* the task as the listener leaves it: handleRequest has run to its first
\* await, which is fetch(request) for a document and caches.match(request)
\* for anything else
Started(req) ==
    IF ~Intercepts(req)
    THEN [IdleTask EXCEPT !.pc = "passthrough", !.req = req]
    ELSE IF IsDocument(req)
         THEN [IdleTask EXCEPT !.pc = "d_fetch", !.req = req, !.ops = << "fetch" >>]
         ELSE [IdleTask EXCEPT !.pc = "a_match", !.req = req, !.ops = << "match" >>]

\* the task suspended at the next await, having started host operation op
Await(tk, pc, op) == [tk EXCEPT !.pc = pc, !.ops = Append(@, op)]

\* the task finished: the promise handed to respondWith settles to r
Done(tk, r) == [tk EXCEPT !.pc = "done", !.result = r]

\* handleRequest's catch block (src/sw.js:82-91): an error escaped the
\* strategy; a document awaits caches.match(OFFLINE_PAGE), anything else
\* gets the 503 response
HandleRequestCatch(tk) ==
    IF IsDocument(tk.req)
    THEN Await(tk, "h_offline", "match")
    ELSE Done(tk, NewResponse("Offline", 503, ""))

\* handleAssetRequest's catch block answering as handleRequest's does
AssetNotAvailableAs503 == NewResponse("Offline", 503, "")

\* the 404 response of handleAssetRequest's catch block
AssetNotAvailable == NewResponse("Asset not available offline", 404, "Not Found")

FirstIdle == CHOOSE t \in TaskIds : tasks[t].pc = "idle" /\ \A s \in TaskIds : tasks[s].pc = "idle" => t <= s

\* the listener runs for one fetch event, of at most limit events in a run
FetchEventWithin(req, limit) ==
    /\ state = "activated"
    /\ nEvents < limit
    /\ \E t \in TaskIds : tasks[t].pc = "idle"
    /\ tasks' = [tasks EXCEPT ![FirstIdle] = Started(req)]
    /\ nEvents' = nEvents + 1
    /\ UNCHANGED << pageVars, caches, netVer, state, skipWaitingFlag, claimed, install,
                    activate, pendingPuts, lastMsg >>

FetchEvent(req) == FetchEventWithin(req, MaxEvents)

\* cache.put(request, networkResponse.clone()) is started and not awaited
StartPut(puts, tk) == puts (+) SetToBag({ [url |-> tk.req.url, resp |-> tk.net] })

\* handleDocumentRequest: fetch(request) settles (src/sw.js:98-107)
DocFetch(t) ==
    /\ tasks[t].pc = "d_fetch"
    /\ \E out \in FetchOutcomes(tasks[t].req.url, netVer) :
        tasks' = [tasks EXCEPT ![t] =
            IF Ok(out)
            THEN Await([@ EXCEPT !.net = out], "d_open", "open")
            ELSE Await([@ EXCEPT !.net = out], "d_match", "match")]
    /\ UNCHANGED << pageVars, caches, netVer, state, skipWaitingFlag, claimed, install,
                    activate, pendingPuts, nEvents, lastMsg >>

\* handleDocumentRequest: caches.open(CACHE_NAME) settles (src/sw.js:102-104);
\* a rejection is caught by the function's own catch block
DocOpen(t) ==
    /\ tasks[t].pc = "d_open"
    /\ \E ok \in BOOLEAN :
        IF ok
        THEN /\ caches' = CachesOpen(caches, CACHE_NAME)
             /\ pendingPuts' = StartPut(pendingPuts, tasks[t])
             /\ tasks' = [tasks EXCEPT ![t] = Done(Await(@, "done", "put"), @.net)]
        ELSE /\ caches' = caches
             /\ pendingPuts' = pendingPuts
             /\ tasks' = [tasks EXCEPT ![t] = Await(@, "d_match", "match")]
    /\ UNCHANGED << pageVars, netVer, state, skipWaitingFlag, claimed, install, activate,
                    nEvents, lastMsg >>

\* the catch block without its lookup of the request: the offline page is
\* looked up at once
DocMatchOfflineOnly(t) ==
    /\ tasks[t].pc = "d_match"
    /\ \E ok \in BOOLEAN :
        tasks' = [tasks EXCEPT ![t] =
            IF ~ok THEN HandleRequestCatch(@)
            ELSE Await(@, "d_offline", "match")]
    /\ UNCHANGED << pageVars, caches, netVer, state, skipWaitingFlag, claimed, install,
                    activate, pendingPuts, nEvents, lastMsg >>

\* handleDocumentRequest: caches.match(request) settles (src/sw.js:111-117)
DocMatch(t) ==
    /\ tasks[t].pc = "d_match"
    /\ \E ok \in BOOLEAN :
        LET cachedResponse == CachesMatch(caches, tasks[t].req.url)
        IN  tasks' = [tasks EXCEPT ![t] =
                IF ~ok THEN HandleRequestCatch(@)
                ELSE IF cachedResponse # Undefined THEN Done(@, cachedResponse)
                ELSE Await(@, "d_offline", "match")]
    /\ UNCHANGED << pageVars, caches, netVer, state, skipWaitingFlag, claimed, install,
                    activate, pendingPuts, nEvents, lastMsg >>

\* handleDocumentRequest: the returned caches.match(OFFLINE_PAGE) settles
\* (src/sw.js:117); its rejection rejects handleDocumentRequest
DocOffline(t) ==
    /\ tasks[t].pc = "d_offline"
    /\ \E ok \in BOOLEAN :
        tasks' = [tasks EXCEPT ![t] =
            IF ok THEN Done(@, CachesMatch(caches, Resolve(OFFLINE_PAGE)))
            ELSE HandleRequestCatch(@)]
    /\ UNCHANGED << pageVars, caches, netVer, state, skipWaitingFlag, claimed, install,
                    activate, pendingPuts, nEvents, lastMsg >>

\* handleRequest: the caches.match(OFFLINE_PAGE) returned from its catch
\* block settles (src/sw.js:87)
TopOffline(t) ==
    /\ tasks[t].pc = "h_offline"
    /\ \E ok \in BOOLEAN :
        tasks' = [tasks EXCEPT ![t] =
            IF ok THEN Done(@, CachesMatch(caches, Resolve(OFFLINE_PAGE)))
            ELSE Done(@, Rejected)]
    /\ UNCHANGED << pageVars, caches, netVer, state, skipWaitingFlag, claimed, install,
                    activate, pendingPuts, nEvents, lastMsg >>

\* handleAssetRequest: caches.match(request) settles (src/sw.js:124-131);
\* a rejection escapes to handleRequest
AssetMatch(t) ==
    /\ tasks[t].pc = "a_match"
    /\ \E ok \in BOOLEAN :
        LET cachedResponse == CachesMatch(caches, tasks[t].req.url)
        IN  tasks' = [tasks EXCEPT ![t] =
                IF ~ok THEN HandleRequestCatch(@)
                ELSE IF cachedResponse # Undefined THEN Done(@, cachedResponse)
                ELSE Await(@, "a_fetch", "fetch")]
    /\ UNCHANGED << pageVars, caches, netVer, state, skipWaitingFlag, claimed, install,
                    activate, pendingPuts, nEvents, lastMsg >>

\* handleAssetRequest: fetch(request) settles (src/sw.js:131-147)
AssetFetch(t) ==
    /\ tasks[t].pc = "a_fetch"
    /\ \E out \in FetchOutcomes(tasks[t].req.url, netVer) :
        tasks' = [tasks EXCEPT ![t] =
            IF out = Rejected THEN Done([@ EXCEPT !.net = out], AssetNotAvailable)
            ELSE IF Ok(out) THEN Await([@ EXCEPT !.net = out], "a_open", "open")
            ELSE Done([@ EXCEPT !.net = out], out)]
    /\ UNCHANGED << pageVars, caches, netVer, state, skipWaitingFlag, claimed, install,
                    activate, pendingPuts, nEvents, lastMsg >>

\* handleAssetRequest: caches.open(CACHE_NAME) settles (src/sw.js:135-139);
\* a rejection is caught by the try around the fetch
AssetOpen(t) ==
    /\ tasks[t].pc = "a_open"
    /\ \E ok \in BOOLEAN :
        IF ok
        THEN /\ caches' = CachesOpen(caches, CACHE_NAME)
             /\ pendingPuts' = StartPut(pendingPuts, tasks[t])
             /\ tasks' = [tasks EXCEPT ![t] = Done(Await(@, "done", "put"), @.net)]
        ELSE /\ caches' = caches
             /\ pendingPuts' = pendingPuts
             /\ tasks' = [tasks EXCEPT ![t] = Done(@, AssetNotAvailable)]
    /\ UNCHANGED << pageVars, netVer, state, skipWaitingFlag, claimed, install, activate,
                    nEvents, lastMsg >>

\* a cache.put started by a handler settles: the snapshot is written, or
\* the write fails and nothing is written
PutSettle(p) ==
    /\ BagIn(p, pendingPuts)
    /\ pendingPuts' = pendingPuts (-) SetToBag({p})
    /\ \E ok \in BOOLEAN :
        caches' = IF ok THEN CachePut(caches, CACHE_NAME, p.url, p.resp) ELSE caches
    /\ UNCHANGED << pageVars, netVer, state, skipWaitingFlag, claimed, install, activate,
                    tasks, nEvents, lastMsg >>

\* the host is done with a fetch event
Release(t) ==
    /\ tasks[t].pc \in {"done", "passthrough"}
    /\ tasks' = [tasks EXCEPT ![t] = IdleTask]
    /\ UNCHANGED << pageVars, caches, netVer, state, skipWaitingFlag, claimed, install,
                    activate, pendingPuts, nEvents, lastMsg >>

(***************************************************************************)
(* message (src/sw.js:151-166).  A message event is its data (absent, or   *)
(* with a type; "" stands for a missing type) and the number of ports      *)
(* transferred with it.                                                    *)
(***************************************************************************)
Message(hasData, type, nports) == [type |-> type, hasData |-> hasData, nports |-> nports]

Messages ==
    { Message(FALSE, "", 0), Message(TRUE, "", 0), Message(TRUE, "SKIP_WAITING", 0) }
    \cup { Message(TRUE, ty, n) : ty \in {"GET_VERSION", "PING"}, n \in 0..1 }

\* the listener without the guard on event.data: reading the type of a
\* message without data throws
OnMessageUnguarded(m) ==
    IF ~m.hasData
    THEN Handled(m, << >>, TRUE, FALSE, FALSE)
    ELSE IF m.type = "SKIP_WAITING"
    THEN Handled(m, << >>, FALSE, FALSE, TRUE)
    ELSE IF m.type = "GET_VERSION" /\ m.nports >= 1
    THEN Handled(m, << [port |-> 1, data |-> [version |-> CACHE_NAME]] >>,
                 FALSE, FALSE, FALSE)
    ELSE IF m.type = "GET_VERSION"
    THEN Handled(m, << >>, TRUE, FALSE, FALSE)
    ELSE Handled(m, << >>, FALSE, m.type # "", FALSE)

\* the listener, start to end: what it replied, whether it threw, whether
\* it logged, whether it called self.skipWaiting()
OnMessage(m) ==
    IF ~(m.hasData /\ m.type # "")
    THEN Handled(m, << >>, FALSE, FALSE, FALSE)
    ELSE IF m.type = "SKIP_WAITING"
    THEN Handled(m, << >>, FALSE, FALSE, TRUE)
    ELSE IF m.type = "GET_VERSION"
    THEN IF m.nports >= 1
         THEN Handled(m, << [port |-> 1, data |-> [version |-> CACHE_NAME]] >>,
                      FALSE, FALSE, FALSE)
         ELSE Handled(m, << >>, TRUE, FALSE, FALSE)
    ELSE Handled(m, << >>, FALSE, TRUE, FALSE)

MessageEvent(m) ==
    /\ state # "parsed"
    /\ nEvents < MaxEvents
    /\ nEvents' = nEvents + 1
    /\ lastMsg' = OnMessage(m)
    /\ skipWaitingFlag' = (skipWaitingFlag \/ lastMsg'.skipWaiting)
    /\ UNCHANGED << pageVars, caches, netVer, state, claimed, install, activate, tasks,
                    pendingPuts >>

(***************************************************************************)
(* The contact form's submit listener (src/script.js:233-273) and          *)
(* submitForm (src/script.js:305-320).  A submission in flight is a call   *)
(* of submitForm the listener awaits: it is at "fetch" while the POST is   *)
(* pending and at "json" while the body of an ok response is being parsed. *)
(***************************************************************************)
\* the visitor changes what the fields hold
EditForm ==
    /\ \E n \in NameValues, e \in EmailValues :
        /\ Form(n, e) # form
        /\ form' = Form(n, e)
    /\ UNCHANGED << workerVars, isLoading, submissions, notification, lastSubmit,
                    nSubmits >>

\* the listener without its test of isLoading
HandleFormSubmitUnguarded ==
    /\ nSubmits < MaxSubmits
    /\ nSubmits' = nSubmits + 1
    /\ IF ~ValidateForm(form)
       THEN /\ notification' = "invalid"
            /\ lastSubmit' = "invalid"
            /\ UNCHANGED << isLoading, submissions >>
       ELSE /\ isLoading' = TRUE
            /\ submissions' = Append(submissions, "fetch")
            /\ lastSubmit' = "started"
            /\ notification' = notification
    /\ UNCHANGED << workerVars, form >>

\* handleFormSubmit runs for one submit event, up to its await: it returns
\* at once while isLoading is set, shows an error when validation fails,
\* and otherwise sets isLoading and calls submitForm, which starts the POST
\* (the form is the site's, with its submit button, so that the lines
\* between the assignment and the try do not throw)
HandleFormSubmit ==
    /\ nSubmits < MaxSubmits
    /\ nSubmits' = nSubmits + 1
    /\ IF isLoading
       THEN /\ lastSubmit' = "ignored"
            /\ UNCHANGED << isLoading, submissions, notification >>
       ELSE IF ~ValidateForm(form)
       THEN /\ notification' = "invalid"
            /\ lastSubmit' = "invalid"
            /\ UNCHANGED << isLoading, submissions >>
       ELSE /\ isLoading' = TRUE
            /\ submissions' = Append(submissions, "fetch")
            /\ lastSubmit' = "started"
            /\ notification' = notification
    /\ UNCHANGED << workerVars, form >>

\* the calls in flight without call i
Without(subs, i) == SubSeq(subs, 1, i - 1) \o SubSeq(subs, i + 1, Len(subs))

\* the POST of call i settles (src/script.js:307-319): with an ok response
\* submitForm goes on to response.json(); with a response that is not ok
\* it throws, and a rejected fetch rejects it: the listener's catch shows
\* the error and its finally clears isLoading
SubmitFetch(i) ==
    /\ i \in DOMAIN submissions
    /\ submissions[i] = "fetch"
    /\ \E out \in { "ok", "not ok", "rejected" } :
        IF out = "ok"
        THEN /\ submissions' = [submissions EXCEPT ![i] = "json"]
             /\ UNCHANGED << isLoading, notification >>
        ELSE /\ submissions' = Without(submissions, i)
             /\ notification' = "error"
             /\ isLoading' = FALSE
    /\ UNCHANGED << workerVars, form, lastSubmit, nSubmits >>

\* response.json() of call i settles and the listener resumes
\* (src/script.js:256-272): on success it shows the success notification
\* and resets the form, on failure its catch shows the error; its finally
\* clears isLoading either way
SubmitJson(i) ==
    /\ i \in DOMAIN submissions
    /\ submissions[i] = "json"
    /\ \E ok \in BOOLEAN :
        IF ok
        THEN /\ notification' = "success"
             /\ form' = EmptyForm
        ELSE /\ notification' = "error"
             /\ form' = form
    /\ submissions' = Without(submissions, i)
    /\ isLoading' = FALSE
    /\ UNCHANGED << workerVars, lastSubmit, nSubmits >>

\* the listener of window 'error' and 'unhandledrejection'
\* (src/script.js:153-154, 418-428): an event that carries an error with a
\* stack (an uncaught exception of a script of the page) shows the
\* notification 'Something went wrong. ...'; any other event (a rejection,
\* an error without an error object) is logged only
HandleError ==
    /\ \E withStack \in BOOLEAN :
        notification' = IF withStack THEN "went wrong" ELSE notification
    /\ UNCHANGED << workerVars, isLoading, form, submissions, lastSubmit, nSubmits >>

(***************************************************************************)
(* The specification.                                                      *)
(***************************************************************************)
\* the worker's life before it receives fetch events: install, activation
\* and the messages of the pages
NextLifecycle ==
    \/ ContentUpdate
    \/ InstallEvent
    \/ InstallOpen
    \/ InstallAddAll
    \/ ActivateEvent
    \/ ActivateKeys
    \/ \E n \in activate.pending : ActivateDelete(n)
    \/ ActivateClaim
    \/ \E m \in Messages : MessageEvent(m)

SpecLifecycle == Init /\ [][NextLifecycle]_vars

\* the requests for the site's start page: as a navigation, and as a
\* resource fetched by a script of the page
RepeatRequests ==
    { Request("GET", Resolve("/"), "document"), Request("GET", Resolve("/"), "") }

RepeatFetchEvent(req) == FetchEventWithin(req, MaxRepeat)

\* repeated requests for one URL, up to MaxRepeat of them, and no messages
NextRepeat ==
    \/ ContentUpdate
    \/ InstallEvent
    \/ InstallOpen
    \/ InstallAddAll
    \/ ActivateEvent
    \/ ActivateKeys
    \/ \E n \in activate.pending : ActivateDelete(n)
    \/ ActivateClaim
    \/ \E req \in RepeatRequests : RepeatFetchEvent(req)
    \/ \E t \in TaskIds : DocFetch(t)
    \/ \E t \in TaskIds : DocOpen(t)
    \/ \E t \in TaskIds : DocMatch(t)
    \/ \E t \in TaskIds : DocOffline(t)
    \/ \E t \in TaskIds : TopOffline(t)
    \/ \E t \in TaskIds : AssetMatch(t)
    \/ \E t \in TaskIds : AssetFetch(t)
    \/ \E t \in TaskIds : AssetOpen(t)
    \/ \E p \in BagToSet(pendingPuts) : PutSettle(p)
    \/ \E t \in TaskIds : Release(t)

SpecRepeat == Init /\ [][NextRepeat]_vars

Next ==
    \/ ContentUpdate
    \/ InstallEvent
    \/ InstallOpen
    \/ InstallAddAll
    \/ ActivateEvent
    \/ ActivateKeys
    \/ \E n \in activate.pending : ActivateDelete(n)
    \/ ActivateClaim
    \/ \E req \in Requests : FetchEvent(req)
    \/ \E t \in TaskIds : DocFetch(t)
    \/ \E t \in TaskIds : DocOpen(t)
    \/ \E t \in TaskIds : DocMatch(t)
    \/ \E t \in TaskIds : DocOffline(t)
    \/ \E t \in TaskIds : TopOffline(t)
    \/ \E t \in TaskIds : AssetMatch(t)
    \/ \E t \in TaskIds : AssetFetch(t)
    \/ \E t \in TaskIds : AssetOpen(t)
    \/ \E p \in BagToSet(pendingPuts) : PutSettle(p)
    \/ \E t \in TaskIds : Release(t)
    \/ \E m \in Messages : MessageEvent(m)

Spec == Init /\ [][Next]_vars

\* the next step of the task in slot t: the operation it awaits settles
TaskStep(t) ==
    \/ DocFetch(t)
    \/ DocOpen(t)
    \/ DocMatch(t)
    \/ DocOffline(t)
    \/ TopOffline(t)
    \/ AssetMatch(t)
    \/ AssetFetch(t)
    \/ AssetOpen(t)

\* every network fetch and every cache operation a handler awaits settles
\* in the end, and the event loop then resumes the handler
Fairness == \A t \in TaskIds : WF_vars(TaskStep(t))

SpecFair == Spec /\ Fairness

\* the page with its contact form: the visitor edits and submits it, the
\* submissions settle, and scripts of the page may fail
NextForm ==
    \/ EditForm
    \/ HandleFormSubmit
    \/ HandleError
    \/ \E i \in DOMAIN submissions : SubmitFetch(i)
    \/ \E i \in DOMAIN submissions : SubmitJson(i)

SpecForm == Init /\ [][NextForm]_vars

(***************************************************************************)
(* Vocabulary of the properties.                                           *)
(***************************************************************************)
\* the cache.put calls that settle in this step
PutsSettled ==
    { p \in BagToSet(pendingPuts) : CopiesIn(p, pendingPuts') < CopiesIn(p, pendingPuts) }

\* the cache.put calls that are started in this step
PutsStarted ==
    { p \in BagToSet(pendingPuts') : CopiesIn(p, pendingPuts') > CopiesIn(p, pendingPuts) }

\* respondWith has been called for the event in slot t
Responded(t) == tasks[t].pc \notin {"idle", "passthrough"}

\* the snapshots of the store of the current version
CurrentEntries == EntriesOf(caches, CACHE_NAME)

\* position of the first occurrence of op among a task's host operations
\* (0 when there is none)
FirstOp(tk, op) ==
    IF \E i \in DOMAIN tk.ops : tk.ops[i] = op
    THEN CHOOSE i \in DOMAIN tk.ops : tk.ops[i] = op /\ \A j \in 1..(i - 1) : tk.ops[j] # op
    ELSE 0

(***************************************************************************)
(* C1  Admission filter.  A fetch event whose request is not a GET or      *)
(* whose URL is of another origin than the worker's (a URL of another host *)
(* that begins with the text of the worker's origin included) is passed    *)
(* through: respondWith is not called for it and the stores are left as    *)
(* they are; respondWith is called for same-origin GET requests only.      *)
(***************************************************************************)
C1_AdmissionFilter ==
    [][\A req \in Requests :
          (FetchEvent(req) /\ (req.method # "GET" \/ ~SameOrigin(req.url)))
              => (tasks'[FirstIdle].pc = "passthrough" /\ caches' = caches)]_vars

(***************************************************************************)
(* C2  No propagation.  Whatever the network and the stores do, the value  *)
(* the promise handed to respondWith settles to is a response: it is never *)
(* undefined and the promise is never rejected.                            *)
(***************************************************************************)
C2_AlwaysAResponse ==
    \A t \in TaskIds : tasks[t].pc = "done" => IsResponse(tasks[t].result)

(***************************************************************************)
(* C3  Classification and ordering.  For a document the first host         *)
(* operation is the network fetch, and a cache lookup is made only after   *)
(* that fetch rejected or resolved with a response that is not ok; for any *)
(* other destination the first host operation is the cache lookup, and a   *)
(* network fetch is made only after that lookup.                           *)
(***************************************************************************)
C3_NetworkFirstCacheFirst ==
    \A t \in TaskIds :
        Responded(t) =>
            IF tasks[t].req.destination = "document"
            THEN /\ tasks[t].ops[1] = "fetch"
                 /\ FirstOp(tasks[t], "match") # 0 =>
                        /\ FirstOp(tasks[t], "match") > 1
                        /\ tasks[t].net # Pending
                        /\ ~Ok(tasks[t].net)
            ELSE /\ tasks[t].ops[1] = "match"
                 /\ FirstOp(tasks[t], "fetch") # 0 => FirstOp(tasks[t], "fetch") > 1

(***************************************************************************)
(* C4  Version isolation.  Once the activate phase has completed (the      *)
(* promise passed to waitUntil is fulfilled), and whatever fetch events    *)
(* and messages are handled afterwards, no store exists whose name differs *)
(* from CACHE_NAME, so at most one store is retained.                      *)
(***************************************************************************)
C4_VersionIsolation ==
    activate.promise = "fulfilled" =>
        /\ \A i \in DOMAIN caches : caches[i].name = CACHE_NAME
        /\ Len(caches) <= 1

\* an old store was there, activation deleted it, and a fetch event and a
\* message have been handled since
C4_Witness ==
    /\ activate.promise = "fulfilled"
    /\ OldCacheNames[1] \in activate.logged
    /\ ~CachesHas(caches, OldCacheNames[1])
    /\ CachesHas(caches, CACHE_NAME)
    /\ lastMsg.handled
    /\ \E t \in TaskIds : tasks[t].pc = "done"

(***************************************************************************)
(* Messages.  A message step is the delivery of an event that is no fetch  *)
(* event.                                                                  *)
(***************************************************************************)
MessageStep == nEvents' = nEvents + 1 /\ tasks' = tasks

Recognized(m) == m.hasData /\ m.type \in {"SKIP_WAITING", "GET_VERSION"}

(***************************************************************************)
(* C6  GET_VERSION contract.  A message of type GET_VERSION, with or       *)
(* without a reply port, gets exactly one reply, {version: CACHE_NAME};    *)
(* handling it does not throw and leaves the stores as they are.           *)
(***************************************************************************)
C6_GetVersionReplies ==
    [][(MessageStep /\ lastMsg'.msg.hasData /\ lastMsg'.msg.type = "GET_VERSION")
          => /\ Len(lastMsg'.replies) = 1
             /\ lastMsg'.replies[1].data = [version |-> CACHE_NAME]
             /\ ~lastMsg'.threw
             /\ caches' = caches]_vars

(***************************************************************************)
(* C7  Unrecognized messages, as claimed.  A message whose type is neither *)
(* SKIP_WAITING nor GET_VERSION, a message without data or without a type  *)
(* included, is logged and ignored: no reply, no exception, no call of     *)
(* skipWaiting, the stores unchanged.                                      *)
(***************************************************************************)
C7_UnrecognizedLoggedAndIgnored ==
    [][(MessageStep /\ ~Recognized(lastMsg'.msg))
          => /\ lastMsg'.logged
             /\ lastMsg'.replies = << >>
             /\ ~lastMsg'.threw
             /\ ~lastMsg'.skipWaiting
             /\ skipWaitingFlag' = skipWaitingFlag
             /\ caches' = caches]_vars

(***************************************************************************)
(* C7  Unrecognized messages, as the listener handles them.  A message     *)
(* whose type is neither SKIP_WAITING nor GET_VERSION is ignored: no       *)
(* reply, no exception, no call of skipWaiting, the stores unchanged.  It  *)
(* is logged exactly when it has data with a type; a message without data  *)
(* or without a type is dropped without a log line.                        *)
(***************************************************************************)
C7_UnrecognizedIgnored ==
    [][(MessageStep /\ ~Recognized(lastMsg'.msg))
          => /\ lastMsg'.logged = (lastMsg'.msg.hasData /\ lastMsg'.msg.type # "")
             /\ lastMsg'.replies = << >>
             /\ ~lastMsg'.threw
             /\ ~lastMsg'.skipWaiting
             /\ skipWaitingFlag' = skipWaitingFlag
             /\ caches' = caches]_vars

\* a message without data has been handled by the active worker, without
\* a log line, while the store of the current version holds the manifest
C7_Witness ==
    /\ lastMsg.handled
    /\ ~lastMsg.msg.hasData
    /\ ~lastMsg.logged
    /\ state = "activated"
    /\ DOMAIN CurrentEntries # {}

(***************************************************************************)
(* Install.                                                                *)
(***************************************************************************)
ManifestUrls == { Resolve(STATIC_CACHE[i]) : i \in ManifestIdx }

\* the install handler has finished and cache.addAll was called: its
\* responses are known
InstallCompleted == state = "installed" /\ DOMAIN install.results # {}

(***************************************************************************)
(* C8  Manifest presence.  Whenever a fetch event is being handled, every  *)
(* entry of STATIC_CACHE, '/offline.html' included, is in the store named  *)
(* CACHE_NAME.                                                             *)
(***************************************************************************)
C8_ManifestPresent ==
    (\E t \in TaskIds : Responded(t)) =>
        \A i \in ManifestIdx : Resolve(STATIC_CACHE[i]) \in DOMAIN CurrentEntries

(***************************************************************************)
(* C9  Best-effort install.  When install completes, every manifest entry  *)
(* whose own fetch succeeded is in the store, whatever happened to the     *)
(* fetches of the other entries.                                           *)
(***************************************************************************)
C9_BestEffortInstall ==
    InstallCompleted =>
        \A i \in ManifestIdx :
            install.results[i] = "ok" => Resolve(STATIC_CACHE[i]) \in DOMAIN CurrentEntries

\* cache.addAll settles in this step with every manifest fetch succeeded
AddAllOkStep ==
    /\ install.pc = "addAll"
    /\ install'.pc = "settled"
    /\ \A i \in ManifestIdx : install'.results[i] = "ok"

(***************************************************************************)
(* C10  Install with every manifest fetch succeeding.  When install        *)
(* completes the store named CACHE_NAME holds one entry per manifest path, *)
(* each an ok snapshot of its own URL; and when cache.addAll found the     *)
(* store empty, it holds exactly these entries and nothing else.           *)
(***************************************************************************)
C10_InstallStoresExactlyManifest ==
    /\ []((InstallCompleted /\ \A i \in ManifestIdx : install.results[i] = "ok") =>
            /\ ManifestUrls \subseteq DOMAIN CurrentEntries
            /\ \A u \in ManifestUrls : Ok(CurrentEntries[u]) /\ CurrentEntries[u].url = u)
    /\ [][(AddAllOkStep /\ DOMAIN CurrentEntries = {}) =>
            /\ InstallCompleted'
            /\ DOMAIN EntriesOf(caches', CACHE_NAME) = ManifestUrls
            /\ Cardinality(DOMAIN EntriesOf(caches', CACHE_NAME)) = Len(STATIC_CACHE)]_vars

\* install has completed with every fetch succeeded, next to an old store,
\* and the store holds the seven manifest entries only
C10_Witness ==
    /\ InstallCompleted
    /\ \A i \in ManifestIdx : install.results[i] = "ok"
    /\ Cardinality(DOMAIN CurrentEntries) = 7
    /\ Len(caches) = 2

(***************************************************************************)
(* Cache-first hits.                                                       *)
(***************************************************************************)
\* the lookup of the asset request in slot t settles with a snapshot of
\* the request's URL
AssetHitStep(t) ==
    /\ tasks[t].pc = "a_match"
    /\ tasks'[t].pc = "done"
    /\ tasks'[t].result.url = tasks[t].req.url

\* the finished task tk was a cache-first hit for request req
WasAssetHit(tk, req) ==
    /\ tk.pc = "done"
    /\ tk.req = req
    /\ tk.ops = << "match" >>
    /\ tk.result.url = req.url

\* what the stores hold for URL u: the entry of the store created first
\* among those that have one
Stored(cs, u, r) ==
    \E i \in DOMAIN cs :
        /\ u \in DOMAIN cs[i].entries
        /\ cs[i].entries[u] = r
        /\ \A j \in 1..(i - 1) : u \notin DOMAIN cs[j].entries

Urls == { req.url : req \in Requests } \cup ManifestUrls

\* every snapshot some store holds for URL u
Snapshots(cs, u) ==
    { cs[i].entries[u] : i \in { j \in DOMAIN cs : u \in DOMAIN cs[j].entries } }

(***************************************************************************)
(* C5  Idempotent cache-first hit, as claimed.  An asset request that      *)
(* finds its identity in the store starts no network fetch, leaves the     *)
(* stores as they are and returns the same snapshot as an earlier hit for  *)
(* that identity, whatever other requests (document requests for the same  *)
(* URL included) were handled in between.                                  *)
(***************************************************************************)
C5_HitsReturnTheSameSnapshot ==
    [][\A t \in TaskIds :
          AssetHitStep(t) =>
              /\ FirstOp(tasks'[t], "fetch") = 0
              /\ caches' = caches
              /\ pendingPuts' = pendingPuts
              /\ \A s \in TaskIds \ {t} :
                    WasAssetHit(tasks[s], tasks[t].req) =>
                        tasks'[t].result = tasks[s].result]_vars

(***************************************************************************)
(* C5  Cache-first hit, as the code provides it.  An asset request whose   *)
(* lookup finds its identity starts no network fetch, starts no write,     *)
(* leaves the stores as they are and returns the snapshot the stores hold  *)
(* for the identity at that moment.  The snapshot held for a URL is        *)
(* replaced only when a cache.put for that URL settles (each started by a  *)
(* document request or an asset miss whose fetch resolved with the ok      *)
(* response being stored) or when activation deletes a store, once the     *)
(* worker is activated and handles fetch events; so two hits return the    *)
(* same snapshot only if neither happened in between.                      *)
(***************************************************************************)
C5_HitReturnsStoredSnapshot ==
    [][/\ \A t \in TaskIds :
             AssetHitStep(t) =>
                 /\ FirstOp(tasks'[t], "fetch") = 0
                 /\ caches' = caches
                 /\ pendingPuts' = pendingPuts
                 /\ Stored(caches, tasks[t].req.url, tasks'[t].result)
       /\ \A u \in Urls : \A r \in Snapshots(caches, u) :
             (state = "activated" /\ Stored(caches, u, r) /\ ~Stored(caches', u, r)) =>
                 \/ \E p \in PutsSettled :
                       p.url = u /\ Stored(caches', u, p.resp)
                 \/ \E n \in activate.pending \ activate'.pending :
                       ~CachesHas(caches', n)
       /\ \A p \in PutsStarted :
             \E t \in TaskIds :
                 /\ tasks[t].pc \in {"d_open", "a_open"}
                 /\ tasks'[t].pc = "done"
                 /\ p = [url |-> tasks[t].req.url, resp |-> tasks[t].net]
                 /\ Ok(p.resp)]_vars

\* two cache-first hits for the start page have returned different
\* snapshots: the first is still held by its task when the second is done
C5_Witness ==
    \E t, s \in TaskIds :
        /\ t # s
        /\ WasAssetHit(tasks[t], Request("GET", Resolve("/"), ""))
        /\ WasAssetHit(tasks[s], Request("GET", Resolve("/"), ""))
        /\ tasks[t].result # tasks[s].result
        /\ tasks[t].result.body = "content-v1"
        /\ tasks[s].result.body = "content-v2"

(***************************************************************************)
(* Fallbacks of the two strategies.                                        *)
(***************************************************************************)
\* the network fetch of the asset request in slot t, started after its
\* lookup missed, rejects
AssetOfflineMissStep(t) ==
    /\ tasks[t].pc = "a_fetch"
    /\ tasks[t].ops = << "match", "fetch" >>
    /\ tasks'[t].net = Rejected

(***************************************************************************)
(* C11  Asset offline miss.  When the lookup of an admitted request that   *)
(* is no document missed and its network fetch rejects, the response       *)
(* handed to respondWith has status 404, status text 'Not Found' and body  *)
(* 'Asset not available offline'; the stores are left as they are and no   *)
(* write is started.                                                       *)
(***************************************************************************)
C11_AssetOfflineMiss ==
    [][\A t \in TaskIds :
          AssetOfflineMissStep(t) =>
              /\ ~IsDocument(tasks[t].req)
              /\ tasks'[t].pc = "done"
              /\ IsResponse(tasks'[t].result)
              /\ tasks'[t].result.status = 404
              /\ tasks'[t].result.statusText = "Not Found"
              /\ tasks'[t].result.body = "Asset not available offline"
              /\ caches' = caches
              /\ pendingPuts' = pendingPuts]_vars

\* the request for an image that is in no store has been answered after
\* its lookup missed and its fetch rejected
C11_Witness ==
    \E t \in TaskIds :
        /\ tasks[t].pc = "done"
        /\ tasks[t].req = Request("GET", Resolve("/assets/missing.png"), "image")
        /\ tasks[t].ops = << "match", "fetch" >>
        /\ tasks[t].net = Rejected
        /\ tasks[t].result.status = 404
        /\ Resolve("/assets/missing.png") \notin DOMAIN CurrentEntries

\* some store holds a snapshot for URL u
Holds(cs, u) == \E i \in DOMAIN cs : u \in DOMAIN cs[i].entries

\* the lookup of the document request in slot t, made after its network
\* fetch rejected or resolved with a response that is not ok, resolves
DocFallbackStep(t) ==
    /\ tasks[t].pc = "d_match"
    /\ ~Ok(tasks[t].net)
    /\ tasks'[t].pc \notin {"d_match", "h_offline"}

(***************************************************************************)
(* C12  Document fallback to cache.  When the network fetch of a document  *)
(* request rejected or resolved with a response that is not ok, and the    *)
(* lookup of the request resolves while a snapshot is held for the         *)
(* request, the response handed to respondWith is that snapshot, as it was *)
(* stored: it is not the network response and not the offline page, and    *)
(* the stores are left as they are.                                        *)
(***************************************************************************)
C12_DocumentFallsBackToCache ==
    [][\A t \in TaskIds :
          (DocFallbackStep(t) /\ Holds(caches, tasks[t].req.url)) =>
              /\ IsDocument(tasks[t].req)
              /\ tasks'[t].pc = "done"
              /\ Stored(caches, tasks[t].req.url, tasks'[t].result)
              /\ tasks'[t].result # tasks[t].net
              /\ tasks'[t].result.url = tasks[t].req.url
              /\ tasks'[t].result.url # Resolve(OFFLINE_PAGE)
              /\ tasks'[t].ops = << "fetch", "match" >>
              /\ caches' = caches
              /\ pendingPuts' = pendingPuts]_vars

\* two navigations to the start page have been answered with the snapshot
\* stored at install: the fetch of one rejected, the fetch of the other
\* resolved with a 500 response
C12_Witness ==
    \E t, s \in TaskIds :
        /\ tasks[t].pc = "done" /\ tasks[s].pc = "done"
        /\ tasks[t].req = Request("GET", Resolve("/"), "document")
        /\ tasks[s].req = tasks[t].req
        /\ tasks[t].net = Rejected
        /\ tasks[s].net = NotOkResponse(Resolve("/"))
        /\ tasks[t].ops = << "fetch", "match" >>
        /\ tasks[s].ops = << "fetch", "match" >>
        /\ Resolve("/") \in DOMAIN CurrentEntries
        /\ tasks[t].result = CurrentEntries[Resolve("/")]
        /\ tasks[s].result = CurrentEntries[Resolve("/")]

\* the offline-page lookup that handleDocumentRequest returns for the
\* document request in slot t resolves; the task is there because its
\* fetch rejected or was not ok and the lookup of its request missed
DocOfflineStep(t) ==
    /\ tasks[t].pc = "d_offline"
    /\ ~Ok(tasks[t].net)
    /\ tasks'[t].pc = "done"

(***************************************************************************)
(* C13  Document fallback to the offline page.  When the network fetch of  *)
(* a document request rejected or resolved with a response that is not ok, *)
(* the lookup of the request found no snapshot, and the lookup of          *)
(* '/offline.html' resolves while a snapshot of '/offline.html' is held,   *)
(* the response handed to respondWith is that snapshot; the stores are     *)
(* left as they are.                                                       *)
(***************************************************************************)
C13_DocumentFallsBackToOfflinePage ==
    [][\A t \in TaskIds :
          (DocOfflineStep(t) /\ Holds(caches, Resolve("/offline.html"))) =>
              /\ IsDocument(tasks[t].req)
              /\ tasks[t].ops = << "fetch", "match", "match" >>
              /\ Stored(caches, Resolve("/offline.html"), tasks'[t].result)
              /\ tasks'[t].result.url = Resolve("/offline.html")
              /\ Ok(tasks'[t].result)
              /\ caches' = caches
              /\ pendingPuts' = pendingPuts]_vars

\* two navigations to a page that is in no store have been answered with
\* the offline page stored at install: the fetch of one rejected, the
\* fetch of the other resolved with a 500 response
C13_Witness ==
    \E t, s \in TaskIds :
        /\ tasks[t].pc = "done" /\ tasks[s].pc = "done"
        /\ tasks[t].req = Request("GET", Resolve("/about.html"), "document")
        /\ tasks[s].req = tasks[t].req
        /\ tasks[t].net = Rejected
        /\ tasks[s].net = NotOkResponse(Resolve("/about.html"))
        /\ tasks[t].ops = << "fetch", "match", "match" >>
        /\ tasks[s].ops = << "fetch", "match", "match" >>
        /\ ~Holds(caches, Resolve("/about.html"))
        /\ Resolve("/offline.html") \in DOMAIN CurrentEntries
        /\ tasks[t].result = CurrentEntries[Resolve("/offline.html")]
        /\ tasks[s].result = CurrentEntries[Resolve("/offline.html")]

(***************************************************************************)
(* C14  Top-level containment.  When an error escapes the strategy,        *)
(* handleRequest answers a document request with the offline page (the     *)
(* step that ends its catch block hands respondWith a response that is the *)
(* snapshot of '/offline.html') and any other request with a response of   *)
(* status 503 and body 'Offline' (a lookup of an asset request that ends   *)
(* the task without a snapshot of the request ends it with that response). *)
(***************************************************************************)
C14_TopLevelContainment ==
    [][\A t \in TaskIds :
          /\ (tasks[t].pc = "h_offline" /\ tasks'[t].pc = "done") =>
                 /\ IsResponse(tasks'[t].result)
                 /\ tasks'[t].result.url = Resolve("/offline.html")
          /\ (/\ tasks[t].pc = "a_match"
              /\ tasks'[t].pc = "done"
              /\ ~Stored(caches, tasks[t].req.url, tasks'[t].result)) =>
                 /\ IsResponse(tasks'[t].result)
                 /\ tasks'[t].result.status = 503
                 /\ tasks'[t].result.body = "Offline"]_vars

(***************************************************************************)
(* Successful fetches.                                                     *)
(***************************************************************************)
(***************************************************************************)
(* C15  Network-first success.  A document request whose network fetch     *)
(* resolved with an ok response is answered with that network response     *)
(* (the claim's safety half; its other half, that the store named          *)
(* CACHE_NAME eventually holds a snapshot of the response, presupposes     *)
(* it).                                                                    *)
(***************************************************************************)
C15_NetworkFirstSuccess ==
    \A t \in TaskIds :
        (tasks[t].pc = "done" /\ IsDocument(tasks[t].req) /\ Ok(tasks[t].net)) =>
            tasks[t].result = tasks[t].net

(***************************************************************************)
(* C16  Cache-first miss ordering.  When an asset request missed the       *)
(* stores and its network fetch resolved with an ok response, then at the  *)
(* moment that response is handed to respondWith the store named           *)
(* CACHE_NAME already holds it as the snapshot of the request's URL.       *)
(***************************************************************************)
C16_StoredBeforeReturn ==
    [][\A t \in TaskIds :
          (/\ tasks[t].pc = "a_open"
           /\ tasks'[t].pc = "done"
           /\ tasks'[t].result = tasks[t].net) =>
              /\ tasks[t].req.url \in DOMAIN EntriesOf(caches', CACHE_NAME)
              /\ EntriesOf(caches', CACHE_NAME)[tasks[t].req.url] = tasks[t].net]_vars

\* a complete response with a status of the 2xx class
SuccessfulResponse(r) == r.kind = "response" /\ r.status \in 200..299 /\ r.body # ""

\* the network fetch of the task in slot t settles without an ok response
FetchNotOkStep(t) ==
    /\ tasks[t].pc \in {"d_fetch", "a_fetch"}
    /\ tasks'[t].pc # tasks[t].pc
    /\ ~SuccessfulResponse(tasks'[t].net)

(***************************************************************************)
(* C17  Only successful responses are stored.  In every reachable state    *)
(* every entry of every store is a complete response of the 2xx class,     *)
(* stored under its own URL.  A network fetch that rejects or resolves     *)
(* with a response that is not ok changes no store and starts no write (a  *)
(* response that is not ok is handed to the caller of an asset request as  *)
(* it is), and every write that is started is a write of an ok response.   *)
(***************************************************************************)
C17_OnlyOkResponsesStored ==
    /\ [](\A i \in DOMAIN caches : \A u \in DOMAIN caches[i].entries :
             SuccessfulResponse(caches[i].entries[u]) /\ caches[i].entries[u].url = u)
    /\ [][\A t \in TaskIds :
             FetchNotOkStep(t) =>
                 /\ caches' = caches
                 /\ pendingPuts' = pendingPuts
                 /\ (tasks[t].pc = "a_fetch" /\ IsResponse(tasks'[t].net)) =>
                        (tasks'[t].pc = "done" /\ tasks'[t].result = tasks'[t].net)]_vars
    /\ [][\A p \in PutsStarted :
             SuccessfulResponse(p.resp) /\ p.resp.url = p.url]_vars

\* an asset request and a navigation have both got a 500 response from the
\* network; the asset request was answered with it, nothing was written
\* and the store holds the manifest only
C17_Witness ==
    \E t, s \in TaskIds :
        /\ tasks[t].pc = "done"
        /\ tasks[t].req = Request("GET", Resolve("/assets/missing.png"), "image")
        /\ tasks[t].net = NotOkResponse(Resolve("/assets/missing.png"))
        /\ tasks[t].result = tasks[t].net
        /\ tasks[s].pc = "done"
        /\ tasks[s].req = Request("GET", Resolve("/about.html"), "document")
        /\ tasks[s].net = NotOkResponse(Resolve("/about.html"))
        /\ pendingPuts = EmptyBag
        /\ DOMAIN CurrentEntries = ManifestUrls
        /\ ~Holds(caches, Resolve("/assets/missing.png"))
        /\ ~Holds(caches, Resolve("/about.html"))

(***************************************************************************)
(* Lifecycle ordering.                                                     *)
(***************************************************************************)
\* clients.claim() is called in this step
ClaimStep == claimed' /\ ~claimed

\* the stores other than the store of the current version
OtherStores(cs) == { cs[i].name : i \in { j \in DOMAIN cs : cs[j].name # CACHE_NAME } }

(***************************************************************************)
(* C18  Activate ordering.  clients.claim is called only during            *)
(* activation and only in a turn after which every store whose name        *)
(* differs from CACHE_NAME, each store that caches.keys() listed included, *)
(* has been deleted and no deletion is pending; no such store exists while *)
(* the claim is outstanding or afterwards.  The activate phase completes   *)
(* (the promise passed to waitUntil is fulfilled) only with clients.claim  *)
(* called.  When caches.keys() or a caches.delete() rejects, the promise   *)
(* is rejected with clients.claim not called, and it is not called later,  *)
(* so the order is kept in these runs too.                                 *)
(***************************************************************************)
C18_ActivateOrdering ==
    /\ [][ClaimStep =>
             /\ state = "activating"
             /\ activate.promise = "pending"
             /\ activate'.promise = "pending"
             /\ OtherStores(caches') = {}
             /\ activate'.pending = {}
             /\ \A n \in activate'.logged : ~CachesHas(caches', n)]_vars
    /\ [](claimed => OtherStores(caches) = {})
    /\ [](activate.promise = "fulfilled" => claimed)
    /\ [][(activate.promise = "pending" /\ activate'.promise = "rejected"
            /\ activate.pc \in {"keys", "deleting"}) => ~claimed']_vars
    /\ [][(activate.promise = "rejected" /\ ~claimed) => ~claimed']_vars
    /\ [][activate.promise = "rejected" => activate'.promise = "rejected"]_vars

\* activation found the store of an earlier version, deleted it and then
\* called clients.claim
C18_Witness ==
    /\ claimed
    /\ activate.promise = "fulfilled"
    /\ activate.logged = { OldCacheNames[1] }
    /\ activate.pending = {}
    /\ OtherStores(caches) = {}
    /\ CachesHas(caches, CACHE_NAME)

(***************************************************************************)
(* C19  Install is non-fatal and does not wait.  The install listener      *)
(* calls skipWaiting whatever caches.open and cache.addAll do later: from  *)
(* the install event on the worker need not wait.  The promise passed to   *)
(* waitUntil is never rejected: it is pending while the worker is          *)
(* installing, where one of its operations can always settle, and          *)
(* fulfilled from then on, also when a failure of caches.open or of a      *)
(* manifest fetch was logged.                                              *)
(***************************************************************************)
C19_InstallNonFatal ==
    /\ [][(state = "parsed" /\ state' # "parsed") =>
             (skipWaitingFlag' /\ state' = "installing" /\ install'.promise = "pending")]_vars
    /\ [](state # "parsed" => skipWaitingFlag)
    /\ [](install.promise # "rejected")
    /\ [](state = "installing" =>
             (install.promise = "pending" /\ ENABLED (InstallOpen \/ InstallAddAll)))
    /\ [](state \in {"installed", "activating", "activated"} =>
             install.promise = "fulfilled")
    /\ [](install.logged => install.promise = "fulfilled")

\* caches.open rejected during install: the failure was logged, the store
\* was not created, and the worker has been installed and activated
C19_Witness ==
    /\ install.logged
    /\ install.promise = "fulfilled"
    /\ skipWaitingFlag
    /\ state = "activated"
    /\ ~CachesHas(caches, CACHE_NAME)

(***************************************************************************)
(* C20  Cache write failure is local.  Every admitted request, document or *)
(* asset, whose network fetch resolved with an ok response is answered     *)
(* with that network response, whatever caches.open and cache.put do.      *)
(***************************************************************************)
C20_StoreFailureIsLocal ==
    \A t \in TaskIds :
        (tasks[t].pc = "done" /\ tasks[t].net # Pending /\ Ok(tasks[t].net)) =>
            /\ IsResponse(tasks[t].result)
            /\ tasks[t].result = tasks[t].net

(***************************************************************************)
(* Concurrent requests.                                                    *)
(***************************************************************************)
\* the request for an asset that no store holds after install
MissingAsset == Request("GET", Resolve("/assets/missing.png"), "image")

\* what the store of the current version holds for URL u in stores cs
\* (Undefined when it holds nothing)
EntryOf(cs, u) ==
    IF u \in DOMAIN EntriesOf(cs, CACHE_NAME) THEN EntriesOf(cs, CACHE_NAME)[u] ELSE Undefined

(***************************************************************************)
(* C21  Concurrent misses.  Fetch events for one asset that is in no store *)
(* are handled independently: both may miss, fetch and start a write, and  *)
(* each is answered with a response.  The store keeps one entry per URL:   *)
(* a write that completes makes its snapshot the entry of its URL and      *)
(* touches no other entry, every pending write can complete in this way    *)
(* whatever the entry was before, and the entry of a URL changes only when *)
(* a write for that URL completes; so after the writes the entry is the    *)
(* snapshot of the write that completed last.                              *)
(***************************************************************************)
C21_ConcurrentMisses ==
    /\ [](\A t \in TaskIds :
             (tasks[t].pc = "done" /\ ~IsDocument(tasks[t].req)) =>
                 IsResponse(tasks[t].result))
    /\ [][\A p \in PutsSettled :
             caches' # caches =>
                 /\ EntryOf(caches', p.url) = p.resp
                 /\ \A u \in Urls \ {p.url} : EntryOf(caches', u) = EntryOf(caches, u)]_vars
    /\ [](\A p \in BagToSet(pendingPuts) :
             ENABLED (PutSettle(p) /\ EntryOf(caches', p.url) = p.resp))
    /\ [][\A u \in Urls :
             (state = "activated" /\ EntryOf(caches', u) # EntryOf(caches, u)) =>
                 \E p \in PutsSettled :
                     p.url = u /\ EntryOf(caches', u) = p.resp]_vars

\* two requests for the same asset both missed, fetched different versions
\* of it and were answered each with its own response; both writes have
\* completed and the store holds one of the two snapshots
C21_Witness ==
    \E t, s \in TaskIds :
        /\ t # s
        /\ tasks[t].pc = "done" /\ tasks[s].pc = "done"
        /\ tasks[t].req = MissingAsset /\ tasks[s].req = MissingAsset
        /\ tasks[t].ops = << "match", "fetch", "open", "put" >>
        /\ tasks[s].ops = << "match", "fetch", "open", "put" >>
        /\ tasks[t].result = tasks[t].net /\ tasks[s].result = tasks[s].net
        /\ tasks[t].net.body = "content-v1" /\ tasks[s].net.body = "content-v2"
        /\ pendingPuts = EmptyBag
        /\ EntryOf(caches, MissingAsset.url) = tasks[t].net

(***************************************************************************)
(* Termination.                                                            *)
(***************************************************************************)
\* the handling of every fetch event respondWith was called for ends
HandlingTerminates ==
    \A t \in TaskIds : (Responded(t) /\ tasks[t].pc # "done") ~> (tasks[t].pc = "done")

\* a task makes a bounded number of host operations (at most five: fetch,
\* open and three lookups) and fetches and opens the store at most once
NoRetry ==
    \A t \in TaskIds :
        /\ Len(tasks[t].ops) <= Len(<< "fetch", "open", "match", "match", "match" >>)
        /\ Cardinality({ i \in DOMAIN tasks[t].ops : tasks[t].ops[i] = "fetch" }) <= 1
        /\ Cardinality({ i \in DOMAIN tasks[t].ops : tasks[t].ops[i] = "open" }) <= 1

(***************************************************************************)
(* C22  Termination.  With every network fetch and every cache operation   *)
(* settling in the end, the handling of every admitted request ends, after *)
(* a bounded number of host operations and without a retry, and it ends by *)
(* handing respondWith a response.                                         *)
(***************************************************************************)
C22_TerminatesWithResponse ==
    /\ HandlingTerminates
    /\ []NoRetry
    /\ [][\A t \in TaskIds :
             (Responded(t) /\ tasks[t].pc # "done" /\ tasks'[t].pc = "done") =>
                 IsResponse(tasks'[t].result)]_vars

(***************************************************************************)
(* The contact form.                                                       *)
(***************************************************************************)
\* a submit event is delivered in this step
SubmitStep == nSubmits' = nSubmits + 1

\* the form passes the validation: a name that is not blank and a
\* well-formed address
WellFilled == form.name = "Ann" /\ form.email = "ann@example.org"

(***************************************************************************)
(* C23  Contact form re-entrancy guard.  At most one call of submitForm is *)
(* in flight at a time, and isLoading is true exactly while one is.  A     *)
(* submit event that arrives while isLoading is true, or whose form fails  *)
(* validation, starts no submission and leaves isLoading as it is; a       *)
(* submit event with a valid form while isLoading is false starts exactly  *)
(* one.  When a submission ends, with success or with an error, isLoading  *)
(* is false again.                                                         *)
(***************************************************************************)
C23_FormReentrancyGuard ==
    /\ [](Len(submissions) <= 1)
    /\ [](isLoading <=> Len(submissions) = 1)
    /\ [][(SubmitStep /\ (isLoading \/ ~WellFilled)) =>
             (submissions' = submissions /\ isLoading' = isLoading)]_vars
    /\ [][(SubmitStep /\ ~isLoading /\ WellFilled) =>
             (submissions' = << "fetch" >> /\ isLoading')]_vars
    /\ [][Len(submissions') < Len(submissions) =>
             (~isLoading' /\ notification' \in { "success", "error" })]_vars

\* a submission is in flight, its POST answered and the body being parsed,
\* after an earlier one ended with an error; the last submit event arrived
\* while isLoading was true and was ignored
C23_Witness ==
    /\ isLoading
    /\ submissions = << "json" >>
    /\ notification = "error"
    /\ lastSubmit = "ignored"
    /\ nSubmits = 3

====
